---- MODULE Spec2Model ----
(***************************************************************************)
(* Model of Tools/Bluetooth/dtm_sweep.py: a sequential script that sweeps  *)
(* DTM parameters over two BLE devices and an RF attenuator, computes the  *)
(* PER of both directions of each trial, appends one CSV row per trial and *)
(* derives the exit status from the running maximum PER.                   *)
(*                                                                         *)
(* The script is one thread of control; pc is its position.  Each hardware *)
(* call of the script is one action, and hciLog records the calls in the   *)
(* order the script issues them.                                           *)
(***************************************************************************)
EXTENDS Integers, Sequences, FiniteSets, TLC

(***************************************************************************)
(* Bounds of the model.                                                    *)
(***************************************************************************)
\* longest comma separated list given for one sweep parameter
MaxListLen == 2
\* largest number of trials (parameter tuples x attenuation levels) of a run
MaxTrials == 4
\* largest --step value explored by the attenuation derivation
MaxStep == 100

(***************************************************************************)
(* Program constants.                                                      *)
(***************************************************************************)
\* Python's None: the absent count of endTestFunc, the absent --attens
None == -1
\* first value of range(20, 90, step)
AttenLow == 20
\* stop value of range(20, 90, step) and the appended maximum attenuation
AttenMax == 90
\* second value of the fixed list used for --step 0
AttenZeroStep == 70
\* RETRY = 2
RETRY == 2
\* worst-case PER forced on give-up
PerGiveUp == 100
\* argparse default of --step
DefaultStep == 10

VARIABLES
    packetLengths,  \* args.pktlen split on ","
    numPackets,     \* args.numpkt split on ","
    phys,           \* args.phys split on ","
    txPowers,       \* args.txpows split on ","
    chans,          \* args.channel split on "," (the list the source calls chan)
    attensArg,      \* args.attens: None, or the explicit list
    step,           \* int(args.step)
    limit,          \* float(args.limit)
    rf_switch,      \* TRUE on the host that has the attenuator
    attens,         \* the attenuation levels of the sweep
    tuples,         \* itertools.product(...) of the five lists, in order
    ti,             \* index in tuples of the current parameter tuple (0: none yet)
    ai,             \* index in attens of the current level (0: none yet)
    per_100,        \* the retry counter
    perMaster,      \* PER measured with the master receiving
    perSlave,       \* PER measured with the slave receiving
    perMax,         \* running maximum PER
    results,        \* lines written to the results file by this run
    closed,         \* results.close() has been called
    hciLog,         \* calls to the attenuator and the two devices that returned, in order
    tries,          \* iterations of the while loop started for the current trial
    exc,            \* "none", or the exception that ended the process
    exitCode,       \* None while running, else the process exit status
    pc              \* position of the script

vars == <<packetLengths, numPackets, phys, txPowers, chans, attensArg, step,
          limit, rf_switch, attens, tuples, ti, ai, per_100, perMaster,
          perSlave, perMax, results, closed, hciLog, tries, exc, exitCode, pc>>

argVars == <<packetLengths, numPackets, phys, txPowers, chans, attensArg,
             step, limit, rf_switch>>

(***************************************************************************)
(* Pure helpers.                                                           *)
(***************************************************************************)

\* Range with the stop value included (start > stop in place of start >= stop)
RECURSIVE RangeInclusive(_, _, _)
RangeInclusive(start, stop, st) ==
    IF (st > 0 /\ start > stop) \/ (st < 0 /\ start < stop)
    THEN <<>>
    ELSE <<start>> \o RangeInclusive(start + st, stop, st)

\* range(start, stop, st) of Python for st # 0
RECURSIVE Range(_, _, _)
Range(start, stop, st) ==
    IF (st > 0 /\ start >= stop) \/ (st < 0 /\ start <= stop)
    THEN <<>>
    ELSE <<start>> \o Range(start + st, stop, st)

\* lines 90-99: the attenuation levels from --attens or --step
DeriveAttens(a, s) ==
    IF a = <<>>
    THEN Append(IF s = 0 THEN <<AttenLow, AttenZeroStep>>
                         ELSE Range(AttenLow, AttenMax, s), AttenMax)
    ELSE a

\* Product with the nesting reversed: the first pool varies fastest
RECURSIVE ProductInnerFirst(_)
ProductInnerFirst(pools) ==
    IF pools = <<>>
    THEN << <<>> >>
    ELSE LET r == ProductInnerFirst(SubSeq(pools, 1, Len(pools) - 1))
             pool == pools[Len(pools)]
             n == Len(r)
         IN [k \in 1..(n * Len(pool)) |->
                Append(r[((k - 1) % n) + 1], pool[((k - 1) \div n) + 1])]

\* itertools.product(*pools): result = [[]]; for each pool, in order,
\* result = [x + [y] for x in result for y in pool]
RECURSIVE Product(_)
Product(pools) ==
    IF pools = <<>>
    THEN << <<>> >>
    ELSE LET r == Product(SubSeq(pools, 1, Len(pools) - 1))
             pool == pools[Len(pools)]
             m == Len(pool)
         IN [k \in 1..(Len(r) * m) |->
                Append(r[((k - 1) \div m) + 1], pool[((k - 1) % m) + 1])]

\* count / int(numPkt) * 100 (lines 175 and 193).  numPkt is 1, 2 or 4 in this
\* model, for which the float quotient is exact and the result is the integer
\* count * 100 / numPkt (0.0, 25.0, 50.0, 75.0 or 100.0).
PER(count, numPkt) == (count * 100) \div numPkt

\* RecordMax that forgets the previous maximum
RecordMaxLast(pmax, pm, ps) ==
    IF ps > pm THEN ps ELSE pm

\* RecordMax that looks at the master's PER only
RecordMaxMasterOnly(pmax, pm, ps) ==
    IF pm > pmax THEN pm ELSE pmax

\* lines 204-208: the running maximum after a measured trial
RecordMax(pmax, pm, ps) ==
    LET m1 == IF pm > pmax THEN pm ELSE pmax
    IN IF ps > m1 THEN ps ELSE m1

\* line 220: the CSV line of a trial; the attenuation is written behind a "-"
Row(t, atten, pm, ps) ==
    <<t[1], t[2], t[3], <<"-", atten>>, t[4], t[5], pm, ps>>

\* ExitStatus without the test that a limit of 0 disables the check
ExitStatusNoDisable(pmax, lim) ==
    IF pmax > lim THEN 1 ELSE 0

\* lines 235-240: the exit status
ExitStatus(pmax, lim) ==
    IF lim # 0 /\ pmax > lim THEN 1 ELSE 0

(***************************************************************************)
(* Inputs.                                                                 *)
(***************************************************************************)
ListLens == 1..MaxListLen
PacketLenList(n) == [i \in 1..n |-> 249 + i]
NumPktList(n) == [i \in 1..n |-> 2 ^ (i - 1)]
PhyList(n) == [i \in 1..n |-> i]
TxPowerList(n) == [i \in 1..n |-> 4 * (i - 1)]
ChanList(n) == [i \in 1..n |-> 39 - i]
\* explicit --attens lists
ExplicitAttens == { <<20>>, <<90, 20>> }
\* --step values tried with the default attenuation list
SweepSteps == {0, 70}
\* --limit values
Limits == {0, 50, 100}
\* counts the receiver's endTestFunc may report for a test of n packets
RxCounts(n) == {None} \cup (0..n)

\* the parameter tuple and attenuation of the current trial
packetLen == tuples[ti][1]
numPkt == tuples[ti][2]
phy == tuples[ti][3]
txPower == tuples[ti][4]
chan == tuples[ti][5]
atten == attens[ai]

(***************************************************************************)
(* Initial state: the command line has been parsed (line 80) and split     *)
(* (lines 84-88); the attenuation levels are not derived yet.              *)
(***************************************************************************)
\* the part of the initial state that does not depend on the arguments
InitScript ==
    /\ attens = <<>>
    /\ tuples = <<>>
    /\ ti = 0
    /\ ai = 0
    /\ per_100 = 0
    /\ perMaster = None
    /\ perSlave = None
    /\ perMax = 0
    /\ results = <<>>
    /\ closed = FALSE
    /\ hciLog = <<>>
    /\ tries = 0
    /\ exc = "none"
    /\ exitCode = None
    /\ pc = "parse_args"

Init ==
    /\ \E a \in ListLens, b \in ListLens, c \in ListLens, d \in ListLens, e \in ListLens :
          /\ packetLengths = PacketLenList(a)
          /\ numPackets = NumPktList(b)
          /\ phys = PhyList(c)
          /\ txPowers = TxPowerList(d)
          /\ chans = ChanList(e)
    /\ \/ attensArg = <<>> /\ step \in SweepSteps
       \/ attensArg \in ExplicitAttens /\ step = DefaultStep
    /\ limit \in Limits
    /\ rf_switch \in BOOLEAN
    /\ Len(packetLengths) * Len(numPackets) * Len(phys) * Len(txPowers) * Len(chans)
          * Len(DeriveAttens(attensArg, step)) <= MaxTrials
    /\ InitScript

\* initial states of the attenuation derivation alone: every --step value up
\* to MaxStep with no --attens, and the default of every other argument
InitAttens ==
    /\ packetLengths = PacketLenList(1)
    /\ numPackets = NumPktList(1)
    /\ phys = PhyList(1)
    /\ txPowers = TxPowerList(1)
    /\ chans = ChanList(1)
    /\ attensArg = <<>>
    /\ step \in 0..MaxStep
    /\ limit = 0
    /\ rf_switch = FALSE
    /\ InitScript

\* lines 90-99 and line 137: derive the attenuation levels, open the results
\* file, create the device sessions and build the product of the five lists
ParseAttens ==
    /\ pc = "parse_args"
    /\ attens' = DeriveAttens(attensArg, step)
    /\ tuples' = Product(<<packetLengths, numPackets, phys, txPowers, chans>>)
    /\ pc' = "for_tuple"
    /\ UNCHANGED <<argVars, ti, ai, per_100, perMaster, perSlave, perMax, results,
                   closed, hciLog, tries, exc, exitCode>>

\* a call to a collaborator that changes nothing else in the script
Call(from, to, entry) ==
    /\ pc = from
    /\ pc' = to
    /\ hciLog' = Append(hciLog, entry)
    /\ UNCHANGED <<argVars, attens, tuples, ti, ai, per_100, perMaster, perSlave,
                   perMax, results, closed, tries, exc, exitCode>>

\* line 137-138: next parameter tuple, per_100 = 0; or leave the sweep
ForTuple ==
    /\ pc = "for_tuple"
    /\ IF ti < Len(tuples)
       THEN /\ ti' = ti + 1
            /\ ai' = 0
            /\ per_100' = 0
            /\ pc' = "for_atten"
       ELSE /\ pc' = "final_reset_slave"
            /\ UNCHANGED <<ti, ai, per_100>>
    /\ UNCHANGED <<argVars, attens, tuples, perMaster, perSlave, perMax, results,
                   closed, hciLog, tries, exc, exitCode>>

\* lines 139-140: next attenuation level of the tuple, RETRY = 2
ForAtten ==
    /\ pc = "for_atten"
    /\ IF ai < Len(attens)
       THEN /\ ai' = ai + 1
            /\ tries' = 0
            /\ pc' = "while"
       ELSE /\ pc' = "for_tuple"
            /\ UNCHANGED <<ai, tries>>
    /\ UNCHANGED <<argVars, attens, tuples, ti, per_100, perMaster, perSlave,
                   perMax, results, closed, hciLog, exc, exitCode>>

\* WhileRetry with the guard inverted (per_100 >= RETRY)
WhileRetryInverted ==
    /\ pc = "while"
    /\ IF per_100 >= RETRY
       THEN /\ tries' = tries + 1
            /\ pc' = "set_atten"
       ELSE /\ pc' = "give_up"
            /\ UNCHANGED tries
    /\ UNCHANGED <<argVars, attens, tuples, ti, ai, per_100, perMaster, perSlave,
                   perMax, results, closed, hciLog, exc, exitCode>>

\* line 141: while per_100 < RETRY
WhileRetry ==
    /\ pc = "while"
    /\ IF per_100 < RETRY
       THEN /\ tries' = tries + 1
            /\ pc' = "set_atten"
       ELSE /\ pc' = "give_up"
            /\ UNCHANGED tries
    /\ UNCHANGED <<argVars, attens, tuples, ti, ai, per_100, perMaster, perSlave,
                   perMax, results, closed, hciLog, exc, exitCode>>

\* SetAtten that drives the attenuator on every host
SetAttenAlways ==
    /\ pc = "set_atten"
    /\ pc' = "reset1_slave"
    /\ hciLog' = Append(hciLog, <<"rcdat", "atten", atten>>)
    /\ UNCHANGED <<argVars, attens, tuples, ti, ai, per_100, perMaster, perSlave,
                   perMax, results, closed, tries, exc, exitCode>>

\* lines 146-149: set the attenuation when the attenuator is present
SetAtten ==
    /\ pc = "set_atten"
    /\ pc' = "reset1_slave"
    /\ hciLog' = IF rf_switch THEN Append(hciLog, <<"rcdat", "atten", atten>>)
                              ELSE hciLog
    /\ UNCHANGED <<argVars, attens, tuples, ti, ai, per_100, perMaster, perSlave,
                   perMax, results, closed, tries, exc, exitCode>>

\* lines 152-153
ResetSlave1 == Call("reset1_slave", "reset1_master", <<"slave", "reset">>)
ResetMaster1 == Call("reset1_master", "set_phy", <<"master", "reset">>)
\* line 157
SetPhy == Call("set_phy", "txpower_slave", <<"master", "phy", phy>>)
\* lines 160-161
TxPowerSlave == Call("txpower_slave", "txpower_master", <<"slave", "txPower", txPower>>)
TxPowerMaster == Call("txpower_master", "a_rx", <<"master", "txPower", txPower>>)
\* line 167
SlaveRx == Call("a_rx", "a_tx", <<"slave", "rxTest", chan, phy>>)
\* lines 169-171
MasterTx == Call("a_tx", "a_end_tx", <<"master", "txTestVS", chan, phy, packetLen, numPkt>>)
\* EndMasterA with the transmitter's end-test left out
EndMasterASkipped ==
    /\ pc = "a_end_tx"
    /\ pc' = "a_end_rx"
    /\ UNCHANGED <<argVars, attens, tuples, ti, ai, per_100, perMaster, perSlave,
                   perMax, results, closed, hciLog, tries, exc, exitCode>>

\* line 174: the transmitter's end-test, its return value is discarded
EndMasterA == Call("a_end_tx", "a_end_rx", <<"master", "endTest">>)

\* line 175: perSlave = hciSlave.endTestFunc(None) / int(numPkt) * 100;
\* dividing None raises TypeError, which nothing catches
EndSlaveA ==
    /\ pc = "a_end_rx"
    /\ \E count \in RxCounts(numPkt) :
          /\ hciLog' = Append(hciLog, <<"slave", "endTest", count>>)
          /\ IF count = None
             THEN /\ exc' = "TypeError"
                  /\ exitCode' = 1
                  /\ pc' = "crashed"
                  /\ UNCHANGED perSlave
             ELSE /\ perSlave' = PER(count, numPkt)
                  /\ pc' = "reset2_slave"
                  /\ UNCHANGED <<exc, exitCode>>
    /\ UNCHANGED <<argVars, attens, tuples, ti, ai, per_100, perMaster, perMax,
                   results, closed, tries>>

\* ResetSlave2 with the reset of the slave left out
ResetSlave2Skipped ==
    /\ pc = "reset2_slave"
    /\ pc' = "reset2_master"
    /\ UNCHANGED <<argVars, attens, tuples, ti, ai, per_100, perMaster, perSlave,
                   perMax, results, closed, hciLog, tries, exc, exitCode>>

\* lines 179-180
ResetSlave2 == Call("reset2_slave", "reset2_master", <<"slave", "reset">>)
ResetMaster2 == Call("reset2_master", "b_rx", <<"master", "reset">>)
\* line 184
MasterRx == Call("b_rx", "b_tx", <<"master", "rxTest", chan, phy>>)
\* lines 186-189
SlaveTx == Call("b_tx", "b_end_tx", <<"slave", "txTestVS", chan, phy, packetLen, numPkt>>)
\* line 192: the transmitter's end-test, its return value is discarded
EndSlaveB == Call("b_end_tx", "b_end_rx", <<"slave", "endTest">>)

\* line 193: perMaster = hciMaster.endTestFunc(None) / int(numPkt) * 100
EndMasterB ==
    /\ pc = "b_end_rx"
    /\ \E count \in RxCounts(numPkt) :
          /\ hciLog' = Append(hciLog, <<"master", "endTest", count>>)
          /\ IF count = None
             THEN /\ exc' = "TypeError"
                  /\ exitCode' = 1
                  /\ pc' = "crashed"
                  /\ UNCHANGED perMaster
             ELSE /\ perMaster' = PER(count, numPkt)
                  /\ pc' = "collect"
                  /\ UNCHANGED <<exc, exitCode>>
    /\ UNCHANGED <<argVars, attens, tuples, ti, ai, per_100, perSlave, perMax,
                   results, closed, tries>>

\* lines 199-211: retry when a PER is None, else record the maximum and break
Collect ==
    /\ pc = "collect"
    /\ IF perMaster = None \/ perSlave = None
       THEN /\ per_100' = per_100 + 1
            /\ pc' = "while"
            /\ UNCHANGED perMax
       ELSE /\ perMax' = RecordMax(perMax, perMaster, perSlave)
            /\ pc' = "give_up"
            /\ UNCHANGED per_100
    /\ UNCHANGED <<argVars, attens, tuples, ti, ai, perMaster, perSlave, results,
                   closed, hciLog, tries, exc, exitCode>>

\* lines 213-217: give up when the retry counter has reached RETRY
GiveUp ==
    /\ pc = "give_up"
    /\ IF per_100 >= RETRY
       THEN /\ perMaster' = PerGiveUp
            /\ perSlave' = PerGiveUp
            /\ perMax' = PerGiveUp
       ELSE UNCHANGED <<perMaster, perSlave, perMax>>
    /\ pc' = "write"
    /\ UNCHANGED <<argVars, attens, tuples, ti, ai, per_100, results, closed,
                   hciLog, tries, exc, exitCode>>

\* line 220: append the row of the trial
WriteRow ==
    /\ pc = "write"
    /\ results' = Append(results, Row(tuples[ti], atten, perMaster, perSlave))
    /\ pc' = "for_atten"
    /\ UNCHANGED <<argVars, attens, tuples, ti, ai, per_100, perMaster, perSlave,
                   perMax, closed, hciLog, tries, exc, exitCode>>

\* lines 226-227
FinalResetSlave == Call("final_reset_slave", "final_reset_master", <<"slave", "reset">>)
FinalResetMaster == Call("final_reset_master", "close", <<"master", "reset">>)

\* CloseResults that closes the file without the blank line
CloseResultsNoBlank ==
    /\ pc = "close"
    /\ closed' = TRUE
    /\ pc' = "exit"
    /\ UNCHANGED <<argVars, attens, tuples, ti, ai, per_100, perMaster, perSlave,
                   perMax, results, hciLog, tries, exc, exitCode>>

\* lines 230-231: a blank line, then close
CloseResults ==
    /\ pc = "close"
    /\ results' = Append(results, <<>>)
    /\ closed' = TRUE
    /\ pc' = "exit"
    /\ UNCHANGED <<argVars, attens, tuples, ti, ai, per_100, perMaster, perSlave,
                   perMax, hciLog, tries, exc, exitCode>>

\* lines 233-240: the exit status
ExitDecision ==
    /\ pc = "exit"
    /\ exitCode' = ExitStatus(perMax, limit)
    /\ pc' = "done"
    /\ UNCHANGED <<argVars, attens, tuples, ti, ai, per_100, perMaster, perSlave,
                   perMax, results, closed, hciLog, tries, exc>>

\* the positions of the script at which a collaborator is called
CallPoints ==
    {"reset1_slave", "reset1_master", "set_phy", "txpower_slave", "txpower_master",
     "a_rx", "a_tx", "a_end_tx", "a_end_rx", "reset2_slave", "reset2_master",
     "b_rx", "b_tx", "b_end_tx", "b_end_rx", "final_reset_slave", "final_reset_master"}
        \cup (IF rf_switch THEN {"set_atten"} ELSE {})

\* CollaboratorRaises that writes a sentinel row for the trial in progress
\* before the process ends
CollaboratorRaisesWritingRow ==
    /\ pc \in CallPoints
    /\ exc' = "HciError"
    /\ exitCode' = 1
    /\ pc' = "crashed"
    /\ results' = Append(results, Row(tuples[ti], atten, PerGiveUp, PerGiveUp))
    /\ UNCHANGED <<argVars, attens, tuples, ti, ai, per_100, perMaster, perSlave,
                   perMax, closed, hciLog, tries>>

\* lines 148-227: a call to a collaborator raises (a hardware or transport
\* error); nothing catches it, the process ends with status 1 and the lines
\* already written stay in the results file
CollaboratorRaises ==
    /\ pc \in CallPoints
    /\ exc' = "HciError"
    /\ exitCode' = 1
    /\ pc' = "crashed"
    /\ UNCHANGED <<argVars, attens, tuples, ti, ai, per_100, perMaster, perSlave,
                   perMax, results, closed, hciLog, tries>>

Next ==
    \/ ParseAttens
    \/ ForTuple \/ ForAtten \/ WhileRetry \/ SetAtten
    \/ ResetSlave1 \/ ResetMaster1 \/ SetPhy \/ TxPowerSlave \/ TxPowerMaster
    \/ SlaveRx \/ MasterTx \/ EndMasterA \/ EndSlaveA
    \/ ResetSlave2 \/ ResetMaster2 \/ MasterRx \/ SlaveTx \/ EndSlaveB \/ EndMasterB
    \/ Collect \/ GiveUp \/ WriteRow
    \/ FinalResetSlave \/ FinalResetMaster \/ CloseResults \/ ExitDecision
    \/ CollaboratorRaises

Spec == Init /\ [][Next]_vars

\* the attenuation derivation on its own, over every step size
NextAttens == ParseAttens

SpecAttens == InitAttens /\ [][NextAttens]_vars

(***************************************************************************)
(* Vocabulary of the properties.                                           *)
(***************************************************************************)
\* the result rows written so far (the closing blank line is no row)
ResultRows == SelectSeq(results, LAMBDA l : Len(l) > 0)

\* the call just made was a receiver's end-test that reported no count
LastCountMissing ==
    /\ hciLog # <<>>
    /\ LET e == hciLog[Len(hciLog)]
       IN Len(e) = 3 /\ e[2] = "endTest" /\ e[3] = None

\* the process has ended, and not because a collaborator raised
Terminated == pc \in {"done", "crashed"} /\ exc # "HciError"

\* number of the trial in progress, counted from 1 in enumeration order
TrialNo == (ti - 1) * Len(attens) + ai

\* number of parameter tuples, from the five argument lists
NumTuples ==
    Len(packetLengths) * Len(numPackets) * Len(phys) * Len(txPowers) * Len(chans)

\* the parameters of the k-th trial in the documented nesting order: packet
\* length outermost, then packet count, PHY, TX power, channel, attenuation
\* innermost
ExpectedParams(k) ==
    LET a == (k - 1) % Len(attens)
        t5 == (k - 1) \div Len(attens)
        t4 == t5 \div Len(chans)
        t3 == t4 \div Len(txPowers)
        t2 == t3 \div Len(phys)
        t1 == t2 \div Len(numPackets)
    IN <<packetLengths[t1 + 1], numPackets[(t2 % Len(numPackets)) + 1],
         phys[(t3 % Len(phys)) + 1], <<"-", attens[a + 1]>>,
         txPowers[(t4 % Len(txPowers)) + 1], chans[(t5 % Len(chans)) + 1]>>

\* the largest master or slave PER of the rows written
MaxRecorded ==
    LET S == UNION {{ResultRows[k][7], ResultRows[k][8]} : k \in 1..Len(ResultRows)}
    IN CHOOSE m \in S : \A x \in S : x <= m

(***************************************************************************)
(* C1.  Every trial has its own retry budget of 2 attempts: a trial is     *)
(* left without a measurement (abandoned by the process, or forced to the  *)
(* 100% sentinel) only after two attempts of that same trial have failed.  *)
(* Violated: the first missing count ends the process (see C2).            *)
(***************************************************************************)
C1_OwnRetryBudget ==
    /\ (pc = "crashed" /\ LastCountMissing) => tries >= 2
    /\ (pc = "write" /\ per_100 >= RETRY) => tries = 2

(***************************************************************************)
(* C2.  An end-test that reports no received count is a transient failure: *)
(* the process does not terminate because of the missing count.            *)
(* Violated: dividing the missing count raises TypeError.                  *)
(***************************************************************************)
C2_MissingCountIsRetried ==
    LastCountMissing => (pc # "crashed" /\ exc = "none" /\ exitCode = None)

(***************************************************************************)
(* C3.  No trial runs more than 2 attempts, and a trial whose attempts     *)
(* failed gets a forced sentinel row: unless a collaborator raises, the    *)
(* process never ends with a trial started and no row written for it.      *)
(* Violated: a trial whose attempt failed ends the process without a row.  *)
(***************************************************************************)
C3_AtMostTwoAttemptsThenRow ==
    /\ tries <= 2
    /\ (Terminated /\ ti > 0 /\ ai > 0) => Len(ResultRows) = TrialNo

(***************************************************************************)
(* C4.  With full reception in both directions of every trial, one         *)
(* parameter tuple and attenuation levels [20, 90], a completed run has    *)
(* written exactly two rows, each with PER 0 for master and slave, the     *)
(* final maximum PER is 0 and the exit code is 0.                          *)
(* Violated: the code computes received / requested * 100, which is 100    *)
(* for full reception.                                                     *)
(***************************************************************************)
FullReception ==
    \A i \in 1..Len(hciLog) :
        (Len(hciLog[i]) = 3 /\ hciLog[i][2] = "endTest") => hciLog[i][3] = numPackets[1]

C4_FullReceptionExample ==
    (pc = "done" /\ NumTuples = 1 /\ attens = <<20, 90>> /\ FullReception)
        => /\ Len(ResultRows) = 2
           /\ \A k \in 1..Len(ResultRows) : ResultRows[k][7] = 0 /\ ResultRows[k][8] = 0
           /\ perMax = 0
           /\ exitCode = 0

(***************************************************************************)
(* C5.  The running maximum PER never decreases in any step.               *)
(***************************************************************************)
C5_PerMaxMonotone == [][perMax' >= perMax]_vars

\* a trial that measured less than the running maximum has been collected
C5_Witness ==
    pc = "give_up" /\ perMax = 100 /\ perMaster < 100 /\ perSlave < 100

(***************************************************************************)
(* C6.  When the sweep has ended, the running maximum PER equals the       *)
(* largest master or slave PER written in any row of the run.              *)
(***************************************************************************)
C6_PerMaxIsMaxOfRows ==
    pc = "done" => (Len(ResultRows) > 0 /\ perMax = MaxRecorded)

\* the maximum was measured by the slave in the first of several trials
C6_Witness ==
    /\ pc = "done"
    /\ Len(ResultRows) >= 2
    /\ ResultRows[1][7] = 0
    /\ ResultRows[1][8] = 100
    /\ ResultRows[Len(ResultRows)][7] < 100
    /\ ResultRows[Len(ResultRows)][8] < 100
    /\ perMax = 100

(***************************************************************************)
(* C7.  A run that reaches the exit decision exits with 1 if and only if   *)
(* the limit is not 0 and the maximum PER is greater than the limit, and   *)
(* with 0 in every other case, in particular whenever the limit is 0.      *)
(***************************************************************************)
C7_ExitCode ==
    pc = "done" =>
        /\ exitCode \in {0, 1}
        /\ exitCode = 1 <=> (limit # 0 /\ perMax > limit)
        /\ limit = 0 => exitCode = 0

\* a run with the check disabled and the worst PER measured
C7_Witness ==
    pc = "done" /\ limit = 0 /\ perMax = 100 /\ exitCode = 0

(***************************************************************************)
(* C8.  The rows written are, in order, the rows of the first trials of    *)
(* the enumeration (packet length outermost, attenuation innermost); a run *)
(* that completes has written one row per trial, tuples x attenuation      *)
(* levels in all; and a line once written is never changed.                *)
(***************************************************************************)
C8_RowsSoFar ==
    /\ \A k \in 1..Len(ResultRows) : SubSeq(ResultRows[k], 1, 6) = ExpectedParams(k)
    /\ pc = "done" => Len(ResultRows) = NumTuples * Len(attens)

C8_OneRowPerTrialInOrder ==
    /\ []C8_RowsSoFar
    /\ [][/\ Len(results') >= Len(results)
          /\ SubSeq(results', 1, Len(results)) = results]_vars

\* a completed run over two tuples and two attenuation levels given out of order
C8_Witness ==
    /\ pc = "done"
    /\ NumTuples = 2
    /\ attens = <<90, 20>>
    /\ Len(ResultRows) = 4

(***************************************************************************)
(* C9.  A trial that gives up is recorded with exactly 100 for the master  *)
(* PER and the slave PER, and the running maximum is at least 100 from     *)
(* then on: unless a collaborator raises, a trial left without a count is  *)
(* never dropped.                                                          *)
(* Violated: the trial whose count is missing ends the process, and no row *)
(* is written for it (see C2).                                             *)
(***************************************************************************)
C9_GiveUpRecordsHundred ==
    (Terminated /\ ti > 0 /\ ai > 0) =>
        \A k \in 1..TrialNo :
            /\ k <= Len(ResultRows)
            /\ (k = TrialNo /\ LastCountMissing) =>
                  /\ ResultRows[k][7] = 100
                  /\ ResultRows[k][8] = 100
                  /\ perMax >= 100

(***************************************************************************)
(* C10.  Without --attens, for a step S > 0 the attenuation levels are     *)
(* 20, 20+S, 20+2S, ... below 90 followed by one final 90; for S = 0 they  *)
(* are exactly 20, 70, 90.                                                 *)
(***************************************************************************)
C10_DefaultAttens ==
    (pc # "parse_args" /\ attensArg = <<>>) =>
        IF step = 0
        THEN attens = <<20, 70, 90>>
        ELSE LET n == Cardinality({k \in 0..70 : 20 + k * step < 90})
             IN /\ Len(attens) = n + 1
                /\ \A k \in 1..n : attens[k] = 20 + (k - 1) * step /\ attens[k] # 90
                /\ attens[n + 1] = 90

\* the default step of 10 has been applied
C10_Witness ==
    /\ pc = "for_tuple"
    /\ attensArg = <<>>
    /\ step = 10
    /\ attens = <<20, 30, 40, 50, 60, 70, 80, 90>>

(***************************************************************************)
(* C11.  When a collaborator call fails fatally, the process terminates    *)
(* without writing a row for the trial in progress: the results file holds *)
(* exactly the rows of the trials completed before the failure, unchanged  *)
(* and in order, and nothing happens after the failure.                    *)
(***************************************************************************)
C11_CrashKeepsCompletedRows ==
    /\ [][(exc = "none" /\ exc' = "HciError") =>
            /\ pc' = "crashed"
            /\ results' = results
            /\ closed' = FALSE
            /\ Len(ResultRows') =
                  IF pc \in {"final_reset_slave", "final_reset_master"}
                  THEN NumTuples * Len(attens)
                  ELSE TrialNo - 1
            /\ \A k \in 1..Len(ResultRows') :
                  SubSeq(ResultRows'[k], 1, 6) = ExpectedParams(k)]_vars
    /\ [][pc # "crashed"]_vars

\* a collaborator raised in the middle of the second trial
C11_Witness ==
    /\ pc = "crashed"
    /\ exc = "HciError"
    /\ TrialNo = 2
    /\ tries = 1
    /\ Len(ResultRows) = 1
    /\ hciLog[Len(hciLog)][2] = "rxTest"

(***************************************************************************)
(* C12.  Every result row is backed by a measurement: when the row of a    *)
(* trial is written, the per-trial protocol has just been run for that     *)
(* trial's parameter tuple and attenuation level: the attenuation set      *)
(* (where the attenuator is present), both devices reset, and both         *)
(* directional tests started with the trial's parameters.                  *)
(***************************************************************************)
\* the n-th call before the latest one (0: the latest)
CallBack(n) == hciLog[Len(hciLog) - n]

\* the calls of a whole run of the protocol for the current trial end the log
ProtocolJustRun ==
    /\ tries >= 1
    /\ Len(hciLog) >= 15
    /\ CallBack(14) = <<"slave", "reset">>
    /\ CallBack(13) = <<"master", "reset">>
    /\ CallBack(9) = <<"slave", "rxTest", chan, phy>>
    /\ CallBack(8) = <<"master", "txTestVS", chan, phy, packetLen, numPkt>>
    /\ CallBack(3) = <<"master", "rxTest", chan, phy>>
    /\ CallBack(2) = <<"slave", "txTestVS", chan, phy, packetLen, numPkt>>
    /\ rf_switch => (Len(hciLog) >= 16 /\ CallBack(15) = <<"rcdat", "atten", atten>>)

C12_RowBackedByMeasurement ==
    [][Len(ResultRows') > Len(ResultRows) =>
          /\ ProtocolJustRun
          /\ ResultRows' = Append(ResultRows, Row(tuples[ti], atten, perMaster, perSlave))
          /\ perMaster # None
          /\ perSlave # None]_vars

\* the second trial has been measured and its row is about to be written
C12_Witness ==
    /\ pc = "write"
    /\ tries = 1
    /\ Len(ResultRows) = 1
    /\ ProtocolJustRun

(***************************************************************************)
(* C13.  Each device is reset before it enters a test mode: whenever a     *)
(* device enters RX or TX test mode, a reset has been issued to it since   *)
(* its previous test, with nothing but configuration commands to that      *)
(* device in between.  (Stated of the latest call; the log only grows, so  *)
(* it holds of every test-mode entry.)                                     *)
(***************************************************************************)
C13_ResetBeforeTestMode ==
    (hciLog # <<>> /\ CallBack(0)[2] \in {"rxTest", "txTestVS"}) =>
        LET j == Len(hciLog)
            dev == hciLog[j][1]
        IN \E i \in 1..(j - 1) :
              /\ hciLog[i] = <<dev, "reset">>
              /\ \A m \in (i + 1)..(j - 1) :
                    hciLog[m][1] = dev => hciLog[m][2] \in {"phy", "txPower"}

\* the slave has entered TX test mode in Direction B of the second trial
C13_Witness ==
    /\ pc = "b_end_tx"
    /\ Len(ResultRows) = 1
    /\ CallBack(0)[1] = "slave"
    /\ CallBack(0)[2] = "txTestVS"
    /\ CallBack(2) = <<"master", "reset">>
    /\ CallBack(3) = <<"slave", "reset">>

(***************************************************************************)
(* C14.  In each direction the receiving device enters RX test mode just   *)
(* before the transmitting device starts its TX test (same channel and     *)
(* PHY), and the next two calls after the TX start are the end-test of the *)
(* transmitter and then the end-test of the receiver: no reset or          *)
(* test-mode command comes before them.  (Stated of the latest three       *)
(* calls; the log only grows.)                                             *)
(***************************************************************************)
OtherDevice(dev) == IF dev = "slave" THEN "master" ELSE "slave"

C14_RxBeforeTxThenEndBoth ==
    /\ (Len(hciLog) >= 1 /\ CallBack(0)[2] = "txTestVS") =>
          /\ Len(hciLog) >= 2
          /\ CallBack(1) = <<OtherDevice(CallBack(0)[1]), "rxTest",
                             CallBack(0)[3], CallBack(0)[4]>>
    /\ (Len(hciLog) >= 2 /\ CallBack(1)[2] = "txTestVS") =>
          CallBack(0) = <<CallBack(1)[1], "endTest">>
    /\ (Len(hciLog) >= 3 /\ CallBack(2)[2] = "txTestVS") =>
          /\ CallBack(1) = <<CallBack(2)[1], "endTest">>
          /\ CallBack(0)[1] = OtherDevice(CallBack(2)[1])
          /\ CallBack(0)[2] = "endTest"

\* Direction B has been run and ended: master RX, slave TX, slave's end-test,
\* master's end-test
C14_Witness ==
    /\ pc = "collect"
    /\ CallBack(3)[1] = "master"
    /\ CallBack(3)[2] = "rxTest"
    /\ CallBack(2)[1] = "slave"
    /\ CallBack(2)[2] = "txTestVS"
    /\ CallBack(1) = <<"slave", "endTest">>
    /\ CallBack(0)[1] = "master"
    /\ CallBack(0)[2] = "endTest"

(***************************************************************************)
(* C15.  Whenever a device starts a TX test, a set-TX-power command        *)
(* carrying the trial's TX power has been issued to that device after its  *)
(* most recent reset.  (Stated of the latest call.)                        *)
(* Violated for the slave in Direction B: its TX power is set at line 160, *)
(* before the reset of line 179, and not again before line 186.            *)
(***************************************************************************)
C15_TxPowerSetSinceReset ==
    (hciLog # <<>> /\ CallBack(0)[2] = "txTestVS") =>
        LET j == Len(hciLog)
            dev == hciLog[j][1]
        IN \E i \in 1..(j - 1) :
              /\ hciLog[i] = <<dev, "txPower", txPower>>
              /\ \A m \in (i + 1)..(j - 1) : hciLog[m] # <<dev, "reset">>

(***************************************************************************)
(* C16.  Attenuator presence is fixed for the whole run.  When it is       *)
(* present, at every point of an attempt where a device command is issued  *)
(* the attenuation has been set to the trial's level earlier in that same  *)
(* attempt; when it is absent, no set-attenuation call is ever made.       *)
(***************************************************************************)
\* positions of the device commands of an attempt
AttemptPoints ==
    {"reset1_slave", "reset1_master", "set_phy", "txpower_slave", "txpower_master",
     "a_rx", "a_tx", "a_end_tx", "a_end_rx", "reset2_slave", "reset2_master",
     "b_rx", "b_tx", "b_end_tx", "b_end_rx"}

\* the call that ends the protocol of an attempt: the master's end-test as receiver
EndsAttempt(e) == Len(e) = 3 /\ e[1] = "master" /\ e[2] = "endTest"

C16_AttenInv ==
    /\ ~rf_switch => \A i \in 1..Len(hciLog) : hciLog[i][1] # "rcdat"
    /\ (rf_switch /\ pc \in AttemptPoints) =>
          \E i \in 1..Len(hciLog) :
              /\ hciLog[i] = <<"rcdat", "atten", atten>>
              /\ \A m \in (i + 1)..Len(hciLog) :
                    hciLog[m][1] # "rcdat" /\ ~EndsAttempt(hciLog[m])

C16_AttenuatorFixed ==
    /\ []C16_AttenInv
    /\ [][rf_switch' = rf_switch]_vars

\* with the attenuator present, the second trial runs at its own level
C16_Witness ==
    /\ rf_switch
    /\ pc = "b_tx"
    /\ attens = <<90, 20>>
    /\ ai = 2
    /\ Len(ResultRows) = 1
    /\ CallBack(12) = <<"rcdat", "atten", 20>>

(***************************************************************************)
(* C17.  On a run that completes, after the last trial's row both devices  *)
(* are reset, then one blank line is appended and the file is closed, and  *)
(* only then is the exit status decided; after the sweep no row is written *)
(* and no device command other than the two resets is issued.              *)
(***************************************************************************)
\* the sweep loop has been left
AfterSweep ==
    pc \in {"final_reset_slave", "final_reset_master", "close", "exit", "done"}

C17_ClosingInv ==
    /\ closed =>
          /\ Len(hciLog) >= 2
          /\ CallBack(1) = <<"slave", "reset">>
          /\ CallBack(0) = <<"master", "reset">>
          /\ Len(ResultRows) = NumTuples * Len(attens)
          /\ results = Append(ResultRows, <<>>)
    /\ ~closed => results = ResultRows
    /\ (exitCode # None /\ exc = "none") => (closed /\ pc = "done")
    /\ pc = "done" => (closed /\ exitCode \in {0, 1} /\ exc = "none")

C17_ClosingOrder ==
    /\ []C17_ClosingInv
    /\ [][AfterSweep =>
            /\ ResultRows' = ResultRows
            /\ \/ hciLog' = hciLog
               \/ hciLog' = Append(hciLog, <<"slave", "reset">>)
               \/ hciLog' = Append(hciLog, <<"master", "reset">>)]_vars

\* a run of two trials has completed
C17_Witness ==
    /\ pc = "done"
    /\ closed
    /\ Len(ResultRows) = 2
    /\ Len(results) = 3
    /\ exitCode \in {0, 1}

====
